---- MODULE Spec2Model ----
(***************************************************************************)
(* State-machine model of TrafficIntersectionEnv (src/traffic_env.py).     *)
(*                                                                         *)
(* Probabilities, rates and visibility are fixed-point numbers in tenths   *)
(* (5 stands for 0.5); ttc_threshold is in tenths as well.  A call of      *)
(* rng.random() < p is a nondeterministic boolean restricted by p:         *)
(* random() lies in [0,1), so p <= 0 never succeeds and p >= 1 always.     *)
(***************************************************************************)
EXTENDS Integers, Sequences, FiniteSets, TLC

VARIABLES
    step_count, queue_n, queue_s, queue_e, queue_w,
    cum_wait_n, cum_wait_s, cum_wait_e, cum_wait_w,
    phase, time_since_switch, collisions, last_scenario,
    scenario_pool, scenario_pool_prob,
    rng, ret, steps_since_change,
    envs, stream,
    constructed,
    fair_model, active_sessions, issued, requests,
    eval_pc, episodes_run, episode_env, done, episode_collisions,
    hard_cases, evaluate_hard_cases, flagged_steps

vars == << step_count, queue_n, queue_s, queue_e, queue_w,
           cum_wait_n, cum_wait_s, cum_wait_e, cum_wait_w,
           phase, time_since_switch, collisions, last_scenario,
           scenario_pool, scenario_pool_prob,
           rng, ret, steps_since_change,
           envs, stream,
           constructed,
           fair_model, active_sessions, issued, requests,
           eval_pc, episodes_run, episode_env, done, episode_collisions,
           hard_cases, evaluate_hard_cases, flagged_steps >>

episode == << step_count, queue_n, queue_s, queue_e, queue_w,
              cum_wait_n, cum_wait_s, cum_wait_e, cum_wait_w,
              phase, time_since_switch, collisions, last_scenario,
              scenario_pool, scenario_pool_prob, rng >>

(* The instance held in the variables above with its last result.          *)
single == << episode, ret, steps_since_change >>

(* The instances run side by side.                                         *)
lockstep == << envs, stream >>

(* The server: the loaded model, the session registry, the identifiers     *)
(* given out so far and the requests being handled.                        *)
server == << fair_model, active_sessions, issued, requests >>

(* The evaluation run: its position, the episodes run, the instance and    *)
(* the locals of run_episode, the hard cases collected by evaluate, and    *)
(* the number of steps flagged so far.                                     *)
evaluation == << eval_pc, episodes_run, episode_env, done, episode_collisions,
                 hard_cases, evaluate_hard_cases, flagged_steps >>

(* What the callers of the instance hold beside it.                        *)
beside == << lockstep, constructed, server, evaluation >>

-----------------------------------------------------------------------------
(* Configuration of the constructed instance.                              *)

max_steps == 2

max_queue == 2

max_flow == 3

min_green_steps == 1

ttc_threshold == 12

(* Reward weights in hundredths (throughput_reward 1.0, queue_penalty      *)
(* 0.01, switch_penalty 0.05, fairness_weight 0.08, safety_weight 2.0).    *)
throughput_reward == 100

queue_penalty == 1

switch_penalty == 5

fairness_weight == 8

safety_weight == 200

ns_rate_range == << 5, 5 >>

ew_rate_range == << 5, 10 >>

visibility_range == << 2, 10 >>

fast_car_prob_range == << 0, 10 >>

(* Bounds of the exploration: step calls accepted per episode, draws taken *)
(* from one generator, and the seeds a caller may pass to reset.           *)
MaxStepCalls == 3

MaxDraws == 22

Seeds == {7}

(* Step calls per episode, and draws taken from one generator by the end   *)
(* of a step, while the scenario pool is being changed.                    *)
MaxPoolStepCalls == 2

MaxPoolDraws == 17

(* Draws taken from one generator while two instances run side by side.    *)
DetMaxDraws == 14

(* Draws taken from the generators of all sessions of the server together: *)
(* one /init and two steps, or two /init and one step.                     *)
ApiMaxDraws == 16

(* Episodes of an evaluation run.                                          *)
EvalEpisodes == 2

(* The instances run side by side.                                         *)
Instances == {1, 2}

(* The values a draw of rng.random() takes, in tenths: one below every     *)
(* positive probability of the model and one above every probability       *)
(* below 1.                                                                *)
DrawValues == {0, 9}

Actions == {0, 1, 2}

EW_GREEN == 0

NS_GREEN == 1

-----------------------------------------------------------------------------
(* Values.                                                                 *)

None == [ns_rate |-> -1, ew_rate |-> -1, visibility |-> -1, fast_car_prob |-> -1]

TrafficScenario(ns, ew, vis, fast) ==
    [ns_rate |-> ns, ew_rate |-> ew, visibility |-> vis, fast_car_prob |-> fast]

Min(a, b) == IF a < b THEN a ELSE b

Max(a, b) == IF a > b THEN a ELSE b

Max3(a, b, c) == Max(a, Max(b, c))

(* Python round(num/den): round half to even.                              *)
Round(num, den) ==
    LET q == num \div den
        r == num % den
    IN  IF 2 * r < den THEN q
        ELSE IF 2 * r > den THEN q + 1
        ELSE IF q % 2 = 0 THEN q ELSE q + 1

(* Curriculum records, both outside the configured ranges.                 *)
HardCase == TrafficScenario(10, 0, 5, 0)

OtherHardCase == TrafficScenario(0, 10, 5, 0)

(* The pools and probabilities a caller passes to set_scenario_pool.       *)
Pools == { << >>, << HardCase >> }

PoolProbs == {0, 5}

(* Outcomes of  rng.random() < p  for p in tenths.                         *)
Bernoulli(p) == IF p <= 0 THEN {FALSE} ELSE IF p >= 10 THEN {TRUE} ELSE {TRUE, FALSE}

(* Outcomes of rng.uniform(low, high): the end points of the range.        *)
Uniform(range) == {range[1], range[2]}

default_rng(seed) == [seed |-> seed, pos |-> 0]

Draw(g, n) == [g EXCEPT !.pos = @ + n]

(* Quotients are kept exact, as pairs << numerator, denominator >> with a  *)
(* positive denominator.                                                   *)
Div(a, b) == << a, b >>

RatEq(x, y) == x[1] * y[2] = y[1] * x[2]

RatLess(x, y) == x[1] * y[2] < y[1] * x[2]

RatSub(x, y) == << x[1] * y[2] - y[1] * x[2], x[2] * y[2] >>

RatAbs(x) == << IF x[1] < 0 THEN -x[1] ELSE x[1], x[2] >>

RatMin(x, y) == IF RatLess(y, x) THEN y ELSE x

(* The result of the last call: the values step and reset return, with the *)
(* locals of step that decide them.                                        *)
NoRet == [op |-> "init", err |-> "none", action |-> 0, seed |-> 0,
          switched |-> FALSE,
          unsafe_switch |-> 0, risk_ns |-> 0, risk_ew |-> 0,
          fast_car_ns |-> FALSE, fast_car_ew |-> FALSE,
          safety_violation |-> 0,
          collision |-> FALSE, terminated |-> FALSE, truncated |-> FALSE,
          throughput |-> 0,
          avg_wait_ns |-> << 0, 1 >>, avg_wait_ew |-> << 0, 1 >>,
          fairness_gap |-> << 0, 1 >>, fairness_ratio |-> << 1, 1 >>,
          reward |-> << 0, 1 >>, obs |-> << >>, scenario |-> None]

-----------------------------------------------------------------------------
(* Pure parts of step.                                                     *)

(* _spawn_traffic without the clamp to max_queue.                          *)
SpawnUnclamped(queue, arrived) == IF arrived THEN queue + 1 ELSE queue

(* _spawn_traffic for one approach.                                        *)
Spawn(queue, arrived) == IF arrived THEN Min(max_queue, queue + 1) ELSE queue

Flow(scenario) == Max(1, Round(max_flow * scenario.visibility, 10))

(* _serve_traffic with the two axes exchanged.                             *)
ServeTrafficSwapped(ph, qn, qs, qe, qw, scenario) ==
    LET flow == Flow(scenario)
    IN  IF ph # 0
        THEN [n |-> qn, s |-> qs,
              e |-> Max(0, qe - flow), w |-> Max(0, qw - flow),
              served |-> Min(qe, flow) + Min(qw, flow)]
        ELSE [n |-> Max(0, qn - flow), s |-> Max(0, qs - flow),
              e |-> qe, w |-> qw,
              served |-> Min(qn, flow) + Min(qs, flow)]

(* _serve_traffic: the queues after service and the number served.         *)
ServeTraffic(ph, qn, qs, qe, qw, scenario) ==
    LET flow == Flow(scenario)
    IN  IF ph = 0
        THEN [n |-> qn, s |-> qs,
              e |-> Max(0, qe - flow), w |-> Max(0, qw - flow),
              served |-> Min(qe, flow) + Min(qw, flow)]
        ELSE [n |-> Max(0, qn - flow), s |-> Max(0, qs - flow),
              e |-> qe, w |-> qw,
              served |-> Min(qn, flow) + Min(qs, flow)]

Switched(action, ph) == action # ph

PhaseAfter(switched, action, ph) == IF switched THEN action ELSE ph

(* The timer without the reset on a phase change.                          *)
TimeAfterNoReset(switched, tss) == tss + 1

TimeAfter(switched, tss) == IF switched THEN 0 ELSE tss + 1

(* The min-green test with <= in place of <.                               *)
UnsafeSwitchInclusive(switched, tss) == IF switched /\ tss <= min_green_steps THEN 1 ELSE 0

UnsafeSwitch(switched, tss) == IF switched /\ tss < min_green_steps THEN 1 ELSE 0

(* ttc = visibility * 3.5 compared with ttc_threshold, both in tenths.     *)
TtcLow(scenario) == scenario.visibility * 35 < ttc_threshold * 10

(* The NS risk coupled to the NS green instead of the EW green.            *)
RiskNsOwnGreen(fast_car_ns, scenario, ph) ==
    IF fast_car_ns /\ TtcLow(scenario) /\ ph = 1 THEN 1 ELSE 0

RiskNs(fast_car_ns, scenario, ph) ==
    IF fast_car_ns /\ TtcLow(scenario) /\ ph = 0 THEN 1 ELSE 0

RiskEw(fast_car_ew, scenario, ph) ==
    IF fast_car_ew /\ TtcLow(scenario) /\ ph = 1 THEN 1 ELSE 0

(* The violation as a count of the flags instead of their maximum.         *)
SafetyViolationSum(unsafe_switch, risk_ns, risk_ew) == unsafe_switch + risk_ns + risk_ew

SafetyViolation(unsafe_switch, risk_ns, risk_ew) == Max3(unsafe_switch, risk_ns, risk_ew)

(* Truncation one step late.                                               *)
TruncatedLate(count) == count > max_steps

Truncated(count) == count >= max_steps

(* Service before the arrivals instead of after them.                      *)
QueueDynamicsServeFirst(ph, qn, qs, qe, qw, arr_n, arr_s, arr_e, arr_w, scenario) ==
    LET sv == ServeTraffic(ph, qn, qs, qe, qw, scenario)
    IN  [n |-> Spawn(sv.n, arr_n), s |-> Spawn(sv.s, arr_s),
         e |-> Spawn(sv.e, arr_e), w |-> Spawn(sv.w, arr_w),
         served |-> sv.served]

(* _spawn_traffic, then _serve_traffic against the phase after the         *)
(* transition.                                                             *)
QueueDynamics(ph, qn, qs, qe, qw, arr_n, arr_s, arr_e, arr_w, scenario) ==
    ServeTraffic(ph, Spawn(qn, arr_n), Spawn(qs, arr_s),
                 Spawn(qe, arr_e), Spawn(qw, arr_w), scenario)

(* An accumulator that counts the steps with a waiting vehicle.            *)
UpdateWaitCounting(cum_wait, queue) == cum_wait + (IF queue > 0 THEN 1 ELSE 0)

(* _update_waits for one approach.                                         *)
UpdateWait(cum_wait, queue) == cum_wait + queue

AvgWait(cum_wait_a, cum_wait_b, count) == Div(cum_wait_a + cum_wait_b, Max(1, count))

(* The gap without the absolute value.                                     *)
FairnessGapSigned(avg_wait_ns, avg_wait_ew) == RatSub(avg_wait_ns, avg_wait_ew)

FairnessGap(avg_wait_ns, avg_wait_ew) == RatAbs(RatSub(avg_wait_ns, avg_wait_ew))

FairnessRatio(avg_wait_ns, avg_wait_ew) ==
    << (avg_wait_ns[1] + avg_wait_ns[2]) * avg_wait_ew[2],
       (avg_wait_ew[1] + avg_wait_ew[2]) * avg_wait_ns[2] >>

(* The reward without the switch penalty.                                  *)
RewardNoSwitchPenalty(weight, throughput, queued, switched, gap, safety) ==
    << (throughput_reward * throughput - queue_penalty * queued
        - safety_weight * safety) * gap[2] - weight * gap[1], gap[2] >>

(* The reward in hundredths, for an instance whose fairness_weight is      *)
(* weight.                                                                 *)
Reward(weight, throughput, queued, switched, gap, safety) ==
    << (throughput_reward * throughput - queue_penalty * queued
        - switch_penalty * (IF switched THEN 1 ELSE 0)
        - safety_weight * safety) * gap[2] - weight * gap[1], gap[2] >>

(* _get_obs.                                                               *)
GetObs(qn, qs, qe, qw, ph, tss, scenario) ==
    << Div(qn, max_queue), Div(qs, max_queue), Div(qe, max_queue), Div(qw, max_queue),
       ph,
       RatMin(Div(tss, Max(1, min_green_steps)), << 1, 1 >>),
       scenario.visibility,
       scenario.fast_car_prob,
       IF scenario.ew_rate > scenario.ns_rate THEN 1 ELSE 0 >>

(* The generator reset draws from when it never re-seeds.                  *)
ResetGeneratorKept(seed, g) == g

(* The generator reset draws from: seed 0 stands for seed=None.            *)
ResetGenerator(seed, g) == IF seed # 0 THEN default_rng(seed) ELSE g

(* _reset_state that leaves the counters of the last episode in place.     *)
ResetStateKeepsCounters(env) ==
    [env EXCEPT !.step_count = 0,
                !.queue_n = 0, !.queue_s = 0, !.queue_e = 0, !.queue_w = 0,
                !.phase = 0, !.time_since_switch = 0,
                !.last_scenario = None]

(* _reset_state: the fields of a fresh episode.                            *)
ResetState(env) ==
    [env EXCEPT !.step_count = 0,
                !.queue_n = 0, !.queue_s = 0, !.queue_e = 0, !.queue_w = 0,
                !.cum_wait_n = 0, !.cum_wait_s = 0, !.cum_wait_e = 0, !.cum_wait_w = 0,
                !.phase = 0, !.time_since_switch = 0, !.collisions = 0,
                !.last_scenario = None]

(* reset(seed) on the instance env, sample being the result of             *)
(* _sample_scenario.                                                       *)
ResetFn(env, seed, sample) ==
    LET fresh == ResetState([env EXCEPT !.rng = ResetGenerator(seed, env.rng)])
    IN  [fresh EXCEPT
           !.last_scenario = sample.scenario,
           !.rng = Draw(fresh.rng, sample.draws),
           !.ret = [NoRet EXCEPT
                      !.op = "reset", !.seed = seed,
                      !.obs = GetObs(0, 0, 0, 0, 0, 0, sample.scenario),
                      !.scenario = sample.scenario]]

(* step(action) on the instance env after a reset, for the given outcomes  *)
(* of its six draws.                                                       *)
StepFn(env, action, arr_n, arr_s, arr_e, arr_w, fast_car_ns, fast_car_ew) ==
    LET count    == env.step_count + 1
        switched == Switched(action, env.phase)
        unsafe   == UnsafeSwitch(switched, env.time_since_switch)
        ph       == PhaseAfter(switched, action, env.phase)
        tss      == TimeAfter(switched, env.time_since_switch)
        sv       == QueueDynamics(ph, env.queue_n, env.queue_s, env.queue_e, env.queue_w,
                                  arr_n, arr_s, arr_e, arr_w, env.last_scenario)
        wait_n   == UpdateWait(env.cum_wait_n, sv.n)
        wait_s   == UpdateWait(env.cum_wait_s, sv.s)
        wait_e   == UpdateWait(env.cum_wait_e, sv.e)
        wait_w   == UpdateWait(env.cum_wait_w, sv.w)
        risk_ns  == RiskNs(fast_car_ns, env.last_scenario, ph)
        risk_ew  == RiskEw(fast_car_ew, env.last_scenario, ph)
        safety   == SafetyViolation(unsafe, risk_ns, risk_ew)
        collision == safety # 0
        avg_ns   == AvgWait(wait_n, wait_s, count)
        avg_ew   == AvgWait(wait_e, wait_w, count)
        gap      == FairnessGap(avg_ns, avg_ew)
    IN  [env EXCEPT
           !.step_count = count,
           !.phase = ph,
           !.time_since_switch = tss,
           !.queue_n = sv.n, !.queue_s = sv.s, !.queue_e = sv.e, !.queue_w = sv.w,
           !.cum_wait_n = wait_n, !.cum_wait_s = wait_s,
           !.cum_wait_e = wait_e, !.cum_wait_w = wait_w,
           !.collisions = IF collision THEN @ + 1 ELSE @,
           !.rng = Draw(@, 6),
           !.ret = [op |-> "step", err |-> "none", action |-> action, seed |-> 0,
                    switched |-> switched, unsafe_switch |-> unsafe,
                    risk_ns |-> risk_ns, risk_ew |-> risk_ew,
                    fast_car_ns |-> fast_car_ns, fast_car_ew |-> fast_car_ew,
                    safety_violation |-> safety,
                    collision |-> collision, terminated |-> collision,
                    truncated |-> Truncated(count), throughput |-> sv.served,
                    avg_wait_ns |-> avg_ns, avg_wait_ew |-> avg_ew,
                    fairness_gap |-> gap,
                    fairness_ratio |-> FairnessRatio(avg_ns, avg_ew),
                    reward |-> Reward(fairness_weight, sv.served,
                                      sv.n + sv.s + sv.e + sv.w, switched, gap, safety),
                    obs |-> GetObs(sv.n, sv.s, sv.e, sv.w, ph, tss, env.last_scenario),
                    scenario |-> env.last_scenario]]

(* The instance held in the variables, as one record.                      *)
Self ==
    [step_count |-> step_count,
     queue_n |-> queue_n, queue_s |-> queue_s, queue_e |-> queue_e, queue_w |-> queue_w,
     cum_wait_n |-> cum_wait_n, cum_wait_s |-> cum_wait_s,
     cum_wait_e |-> cum_wait_e, cum_wait_w |-> cum_wait_w,
     phase |-> phase, time_since_switch |-> time_since_switch,
     collisions |-> collisions, last_scenario |-> last_scenario,
     scenario_pool |-> scenario_pool, scenario_pool_prob |-> scenario_pool_prob,
     rng |-> rng, ret |-> ret]

(* The variables take the fields of the record env.                        *)
Becomes(env) ==
    /\ step_count' = env.step_count
    /\ queue_n' = env.queue_n /\ queue_s' = env.queue_s
    /\ queue_e' = env.queue_e /\ queue_w' = env.queue_w
    /\ cum_wait_n' = env.cum_wait_n /\ cum_wait_s' = env.cum_wait_s
    /\ cum_wait_e' = env.cum_wait_e /\ cum_wait_w' = env.cum_wait_w
    /\ phase' = env.phase
    /\ time_since_switch' = env.time_since_switch
    /\ collisions' = env.collisions
    /\ last_scenario' = env.last_scenario
    /\ scenario_pool' = env.scenario_pool
    /\ scenario_pool_prob' = env.scenario_pool_prob
    /\ rng' = env.rng
    /\ ret' = env.ret

(* The seed the operating system's entropy gives the generator of          *)
(* instance i when no seed is supplied: different for every instance.      *)
Entropy(i) == 0 - i

(* The constructor's generator when the seed argument is ignored.          *)
ConstructIgnoresSeed(i, seed) == default_rng(Entropy(i))

(* The generator the constructor of instance i makes: seed 0 stands for    *)
(* seed=None.                                                              *)
Construct(i, seed) == default_rng(IF seed # 0 THEN seed ELSE Entropy(i))

(* The instance as the constructor leaves it, with the generator g.        *)
NewEnv(g) ==
    [step_count |-> 0,
     queue_n |-> 0, queue_s |-> 0, queue_e |-> 0, queue_w |-> 0,
     cum_wait_n |-> 0, cum_wait_s |-> 0, cum_wait_e |-> 0, cum_wait_w |-> 0,
     phase |-> 0, time_since_switch |-> 0,
     collisions |-> 0, last_scenario |-> None,
     scenario_pool |-> << >>, scenario_pool_prob |-> 0,
     rng |-> g, ret |-> NoRet]

(* The k-th next value of the generator g, s being the values of the       *)
(* generators' streams.                                                    *)
Random(g, k, s) == s[<< g.seed, g.pos + k >>]

(* The positions of the next n values of the generator g.                  *)
Positions(g, n) == { << g.seed, g.pos + k >> : k \in 0..(n - 1) }

(* rng.uniform(low, high) for the draw u: the lower end for the lowest     *)
(* draw, the upper end otherwise.                                          *)
UniformAt(range, u) == IF u = 0 THEN range[1] ELSE range[2]

(* The values _sample_scenario may take from the generator.                *)
SampleDraws(pool) == IF Len(pool) = 0 THEN 4 ELSE 5

(* _sample_scenario reading the generator g from the stream values s.      *)
SampleScenarioAt(pool, prob, g, s) ==
    IF Len(pool) > 0 /\ Random(g, 0, s) < prob
    THEN [scenario |-> pool[IF Random(g, 1, s) = 0 THEN 1 ELSE Len(pool)],
          draws |-> 2]
    ELSE LET k == IF Len(pool) > 0 THEN 1 ELSE 0
         IN  [scenario |->
                  TrafficScenario(UniformAt(ns_rate_range, Random(g, k, s)),
                                  UniformAt(ew_rate_range, Random(g, k + 1, s)),
                                  UniformAt(visibility_range, Random(g, k + 2, s)),
                                  UniformAt(fast_car_prob_range, Random(g, k + 3, s))),
              draws |-> k + 4]

(* reset(seed) on the instance env reading the stream values s.            *)
ResetAt(env, seed, s) ==
    ResetFn(env, seed,
            SampleScenarioAt(env.scenario_pool, env.scenario_pool_prob,
                             ResetGenerator(seed, env.rng), s))

(* step(action) on the instance env reading the stream values s: the       *)
(* assertion fails before a reset, otherwise the six draws are compared    *)
(* with the rates of the scenario in the order of the code.                *)
StepAt(env, action, s) ==
    IF env.last_scenario = None
    THEN [env EXCEPT !.ret = [NoRet EXCEPT !.op = "step", !.err = "AssertionError",
                                           !.action = action]]
    ELSE StepFn(env, action,
                Random(env.rng, 0, s) < env.last_scenario.ns_rate,
                Random(env.rng, 1, s) < env.last_scenario.ns_rate,
                Random(env.rng, 2, s) < env.last_scenario.ew_rate,
                Random(env.rng, 3, s) < env.last_scenario.ew_rate,
                Random(env.rng, 4, s) < env.last_scenario.fast_car_prob,
                Random(env.rng, 5, s) < env.last_scenario.fast_car_prob)

(* No construction was attempted yet.                                      *)
NoKwargs == [ns_rate_range |-> << >>, fast_car_prob_range |-> << >>,
             visibility_range |-> << >>, min_green_steps |-> 0]

(* Range arguments a caller may pass: ends in tenths, also with low above  *)
(* high and with an end above 1.                                           *)
RangeArgs == { << low, high >> : low, high \in {0, 5, 12} }

(* Keyword arguments of a construction; the other arguments keep their     *)
(* defaults.                                                               *)
Kwargs ==
    [ns_rate_range : RangeArgs, fast_car_prob_range : RangeArgs,
     visibility_range : {<< 2, 10 >>, << 10, 2 >>},
     min_green_steps : {0 - 1, 0, 1}]

(* The threads of the server's pool that handle requests.                  *)
Threads == {1, 2}

(* A thread that handles no request and has sent no response.              *)
IdleRequest ==
    [pc |-> "idle", op |-> "none", episode_id |-> 0, response |-> "none",
     done |-> FALSE, stale |-> FALSE]

(* The server after startup, model being the result of PPO.load for the    *)
(* fair agent: "PPO", or "None" when loading failed.                       *)
Startup(model) ==
    /\ fair_model = model
    /\ active_sessions = << >>
    /\ issued = {}
    /\ requests = [t \in Threads |-> IdleRequest]

-----------------------------------------------------------------------------
(* The instances after construction.                                       *)
InitEnv ==
    /\ step_count = 0
    /\ queue_n = 0 /\ queue_s = 0 /\ queue_e = 0 /\ queue_w = 0
    /\ cum_wait_n = 0 /\ cum_wait_s = 0 /\ cum_wait_e = 0 /\ cum_wait_w = 0
    /\ phase = 0
    /\ time_since_switch = 0
    /\ collisions = 0
    /\ last_scenario = None
    /\ scenario_pool = << >>
    /\ scenario_pool_prob = 0
    /\ rng \in {default_rng(s) : s \in Seeds \cup {0}}
    /\ ret = NoRet
    /\ steps_since_change = 0
    /\ envs = [i \in Instances |-> NewEnv(Construct(i, rng.seed))]
    /\ stream = << >>
    /\ constructed = NoKwargs

(* evaluate before its first episode.                                      *)
InitEval ==
    /\ eval_pc = "for"
    /\ episodes_run = 0
    /\ episode_env = NewEnv(Construct(1, 0))
    /\ done = FALSE
    /\ episode_collisions = 0
    /\ hard_cases = << >>
    /\ evaluate_hard_cases = << >>
    /\ flagged_steps = 0

Init == InitEnv /\ Startup("PPO") /\ InitEval

(* The scenarios the four uniform draws of _sample_scenario can produce.   *)
FromRanges ==
    { TrafficScenario(ns, ew, vis, fast) :
        ns \in Uniform(ns_rate_range), ew \in Uniform(ew_rate_range),
        vis \in Uniform(visibility_range), fast \in Uniform(fast_car_prob_range) }

(* _sample_scenario that takes the pool whenever it is non-empty.          *)
SampleScenarioAlwaysPool(pool, prob) ==
    IF Len(pool) = 0
    THEN { [scenario |-> s, draws |-> 4] : s \in FromRanges }
    ELSE { [scenario |-> pool[i], draws |-> 2] : i \in 1..Len(pool) }

(* _sample_scenario: the possible results, each with the number of draws   *)
(* it takes from the generator.  An empty pool short-circuits the          *)
(* probability draw.                                                      *)
SampleScenario(pool, prob) ==
    IF Len(pool) = 0
    THEN { [scenario |-> s, draws |-> 4] : s \in FromRanges }
    ELSE { [scenario |-> pool[i], draws |-> 2] :
               i \in {j \in 1..Len(pool) : TRUE \in Bernoulli(prob)} }
         \cup
         { [scenario |-> s, draws |-> 5] :
               s \in {t \in FromRanges : FALSE \in Bernoulli(prob)} }

(* reset(seed): seed 0 stands for seed=None.                               *)
Reset(seed) ==
    \E sample \in SampleScenario(scenario_pool, scenario_pool_prob) :
        /\ ResetGenerator(seed, rng).pos + sample.draws <= MaxDraws
        /\ Becomes(ResetFn(Self, seed, sample))
        /\ steps_since_change' = 0
        /\ UNCHANGED beside

(* step(action) before reset with the assertion compiled out: the counter  *)
(* and the phase are advanced before the missing scenario is dereferenced. *)
StepBeforeResetNoAssert(action) ==
    /\ last_scenario = None
    /\ step_count < MaxStepCalls
    /\ step_count' = step_count + 1
    /\ phase' = PhaseAfter(Switched(action, phase), action, phase)
    /\ time_since_switch' = TimeAfter(Switched(action, phase), time_since_switch)
    /\ ret' = [NoRet EXCEPT !.op = "step", !.err = "AttributeError", !.action = action]
    /\ UNCHANGED << queue_n, queue_s, queue_e, queue_w,
                    cum_wait_n, cum_wait_s, cum_wait_e, cum_wait_w,
                    collisions, last_scenario, scenario_pool, scenario_pool_prob,
                    rng, steps_since_change, beside >>

(* step(action) on an instance that was never reset: the assertion fails.  *)
StepBeforeReset(action) ==
    /\ last_scenario = None
    /\ ret' = [NoRet EXCEPT !.op = "step", !.err = "AssertionError", !.action = action]
    /\ UNCHANGED << episode, steps_since_change, beside >>

StepBody(action, arr_n, arr_s, arr_e, arr_w, fast_car_ns, fast_car_ew) ==
    LET env == StepFn(Self, action, arr_n, arr_s, arr_e, arr_w, fast_car_ns, fast_car_ew)
    IN  /\ Becomes(env)
        /\ steps_since_change' = IF env.phase # phase THEN 0 ELSE steps_since_change + 1
        /\ UNCHANGED beside

Step(action) ==
    /\ last_scenario # None
    /\ step_count < MaxStepCalls
    /\ rng.pos + 6 <= MaxDraws
    /\ \E arr_n, arr_s \in Bernoulli(last_scenario.ns_rate) :
       \E arr_e, arr_w \in Bernoulli(last_scenario.ew_rate) :
       \E fast_car_ns, fast_car_ew \in Bernoulli(last_scenario.fast_car_prob) :
          StepBody(action, arr_n, arr_s, arr_e, arr_w, fast_car_ns, fast_car_ew)

(* set_scenario_pool that also makes the first pool entry the current     *)
(* scenario.                                                               *)
SetScenarioPoolApplied(scenarios, prob) ==
    /\ scenario_pool' = scenarios
    /\ scenario_pool_prob' = prob
    /\ last_scenario' = IF Len(scenarios) > 0 THEN scenarios[1] ELSE last_scenario
    /\ ret' = [NoRet EXCEPT !.op = "set_scenario_pool"]
    /\ UNCHANGED << step_count, queue_n, queue_s, queue_e, queue_w,
                    cum_wait_n, cum_wait_s, cum_wait_e, cum_wait_w,
                    phase, time_since_switch, collisions,
                    rng, steps_since_change, beside >>

(* set_scenario_pool(scenarios, prob).                                     *)
SetScenarioPool(scenarios, prob) ==
    /\ scenario_pool' = scenarios
    /\ scenario_pool_prob' = prob
    /\ ret' = [NoRet EXCEPT !.op = "set_scenario_pool"]
    /\ UNCHANGED << step_count, queue_n, queue_s, queue_e, queue_w,
                    cum_wait_n, cum_wait_s, cum_wait_e, cum_wait_w,
                    phase, time_since_switch, collisions, last_scenario,
                    rng, steps_since_change, beside >>

(* The caller changes an entry of the list it handed over: the instance    *)
(* holds that same list, so its pool changes with it.                      *)
MutatePool(i, scenario) ==
    /\ i \in 1..Len(scenario_pool)
    /\ scenario # scenario_pool[i]
    /\ scenario_pool' = [scenario_pool EXCEPT ![i] = scenario]
    /\ ret' = [NoRet EXCEPT !.op = "pool_mutated"]
    /\ UNCHANGED << step_count, queue_n, queue_s, queue_e, queue_w,
                    cum_wait_n, cum_wait_s, cum_wait_e, cum_wait_w,
                    phase, time_since_switch, collisions, last_scenario,
                    scenario_pool_prob, rng, steps_since_change, beside >>

Next ==
    \/ \E seed \in Seeds \cup {0} : Reset(seed)
    \/ \E action \in Actions : StepBeforeReset(action)
    \/ \E action \in Actions : Step(action)

Spec == Init /\ [][Next]_vars

(* The instance with a caller that also changes the scenario pool.         *)
NextPool ==
    \/ \E seed \in Seeds \cup {0} : Reset(seed)
    \/ \E action \in Actions : StepBeforeReset(action)
    \/ \E action \in Actions :
          /\ step_count < MaxPoolStepCalls
          /\ rng.pos + 6 <= MaxPoolDraws
          /\ Step(action)
    \/ \E scenarios \in Pools, prob \in PoolProbs : SetScenarioPool(scenarios, prob)
    \/ \E scenario \in {HardCase, OtherHardCase} : MutatePool(1, scenario)

SpecPool == Init /\ [][NextPool]_vars

(* The stream values s extended by values for the positions not yet read.  *)
Extended(s, positions) ==
    { s @@ t : t \in [positions \ DOMAIN s -> DrawValues] }

(* reset(seed) called on every instance.                                   *)
DetReset(seed) ==
    LET positions ==
            UNION { Positions(ResetGenerator(seed, envs[i].rng),
                              SampleDraws(envs[i].scenario_pool)) : i \in Instances }
    IN  /\ \A i \in Instances :
              ResetGenerator(seed, envs[i].rng).pos + SampleDraws(envs[i].scenario_pool)
                  <= DetMaxDraws
        /\ \E s \in Extended(stream, positions) :
              /\ stream' = s
              /\ envs' = [i \in Instances |-> ResetAt(envs[i], seed, s)]
        /\ UNCHANGED << single, constructed, server, evaluation >>

(* step(action) called on every instance.                                  *)
DetStep(action) ==
    LET started   == { i \in Instances : envs[i].last_scenario # None }
        positions == UNION { Positions(envs[i].rng, 6) : i \in started }
    IN  /\ \A i \in started : envs[i].rng.pos + 6 <= DetMaxDraws
        /\ \E s \in Extended(stream, positions) :
              /\ stream' = s
              /\ envs' = [i \in Instances |-> StepAt(envs[i], action, s)]
        /\ UNCHANGED << single, constructed, server, evaluation >>

(* Instances built with the same seed and driven by the same calls.        *)
InitDet == Init /\ rng.seed # 0

NextDet ==
    \/ \E seed \in Seeds \cup {0} : DetReset(seed)
    \/ \E action \in Actions : DetStep(action)

SpecDet == InitDet /\ [][NextDet]_vars

(* The constructor called with kwargs: every argument is stored as given   *)
(* and the instance is returned.                                           *)
ConstructEnv(kwargs) ==
    /\ constructed' = kwargs
    /\ UNCHANGED << single, lockstep, server, evaluation >>

NextConstruct == \E kwargs \in Kwargs : ConstructEnv(kwargs)

SpecConstruct == Init /\ [][NextConstruct]_vars

-----------------------------------------------------------------------------
(* The API server (src/api_server.py).  The instance of the session with   *)
(* identifier i is envs[i]; the registry maps the identifier to the agent  *)
(* type and the model, the instance being reached through the identifier.  *)
(* The fair agent is modelled; the baseline agent differs in reward        *)
(* weights and ttc_threshold only.                                         *)

AgentTypes == {"fair", "other"}

(* The requests in progress.                                               *)
InFlight == { t \in Threads : requests[t].pc # "idle" }

(* Draws taken so far from the generators of the sessions.                 *)
RECURSIVE DrawsOf(_)
DrawsOf(ids) ==
    IF ids = {} THEN 0
    ELSE LET i == CHOOSE j \in ids : TRUE
         IN  envs[i].rng.pos + DrawsOf(ids \ {i})

(* The instances after a call on the instance i that leaves it as env,     *)
(* when all instances draw from one generator.                             *)
StoredSharedGenerator(i, env) ==
    [j \in Instances |-> IF j = i THEN env ELSE [envs[j] EXCEPT !.rng = env.rng]]

(* The instances after a call on the instance i that leaves it as env:     *)
(* every field of an instance, its generator included, is an attribute of  *)
(* that instance alone.                                                    *)
Stored(i, env) == [envs EXCEPT ![i] = env]

(* create_environment(agent_type, seed) for the session i.                 *)
create_environment(i, seed) ==
    [NewEnv(Construct(i, seed)) EXCEPT !.scenario_pool_prob = 4]

(* POST /init with an unknown agent type: create_environment raises        *)
(* ValueError, answered with 400.                                          *)
InitRejected(t, agent_type) ==
    /\ requests[t].pc = "idle"
    /\ agent_type # "fair"
    /\ requests' = [requests EXCEPT ![t] =
                        [IdleRequest EXCEPT !.op = "init", !.response = "400"]]
    /\ UNCHANGED << single, lockstep, constructed, evaluation, fair_model, active_sessions, issued >>

(* POST /init: a new instance is created and reset, and registered under  *)
(* a fresh identifier.                                                     *)
InitializeEpisode(t, seed) ==
    LET id  == Cardinality(issued) + 1
        env == create_environment(id, seed)
    IN  /\ requests[t].pc = "idle"
        /\ id \in Instances
        /\ DrawsOf(issued) + 4 <= ApiMaxDraws
        /\ \E sample \in SampleScenario(env.scenario_pool, env.scenario_pool_prob) :
              envs' = Stored(id, ResetFn(env, seed, sample))
        /\ active_sessions' =
              [i \in DOMAIN active_sessions \cup {id} |->
                  IF i = id THEN [agent_type |-> "fair", model |-> fair_model]
                  ELSE active_sessions[i]]
        /\ issued' = issued \cup {id}
        /\ requests' = [requests EXCEPT ![t] =
                            [IdleRequest EXCEPT !.op = "init", !.episode_id = id,
                                                !.response = "200"]]
        /\ UNCHANGED << single, stream, constructed, evaluation, fair_model >>

(* POST /step arrives at the thread t.                                     *)
StepArrives(t, id) ==
    /\ requests[t].pc = "idle"
    /\ requests' = [requests EXCEPT ![t] =
                        [IdleRequest EXCEPT !.pc = "lookup", !.op = "step",
                                            !.episode_id = id]]
    /\ UNCHANGED << single, lockstep, constructed, evaluation, fair_model, active_sessions, issued >>

(* Line 178: the identifier is looked up; an unknown one is answered with  *)
(* 404.                                                                    *)
StepLookup(t) ==
    /\ requests[t].pc = "lookup"
    /\ requests' = [requests EXCEPT ![t] =
                        IF requests[t].episode_id \in DOMAIN active_sessions
                        THEN [@ EXCEPT !.pc = "fetch"]
                        ELSE [@ EXCEPT !.pc = "idle", !.response = "404"]]
    /\ UNCHANGED << single, lockstep, constructed, evaluation, fair_model, active_sessions, issued >>

(* Lines 181-184: the session is read from the registry, which raises      *)
(* KeyError outside the try block when it was removed meanwhile; a session *)
(* without a model is answered with 500.                                   *)
StepFetch(t) ==
    LET id == requests[t].episode_id
    IN  /\ requests[t].pc = "fetch"
        /\ requests' = [requests EXCEPT ![t] =
                            IF id \notin DOMAIN active_sessions
                            THEN [@ EXCEPT !.pc = "idle", !.response = "500 KeyError"]
                            ELSE IF active_sessions[id].model = "None"
                            THEN [@ EXCEPT !.pc = "idle", !.response = "500 no model"]
                            ELSE [@ EXCEPT !.pc = "step"]]
        /\ UNCHANGED << single, lockstep, constructed, evaluation, fair_model, active_sessions, issued >>

(* The episode of the instance has returned terminated or truncated.       *)
Done(env) ==
    env.ret.op = "step" /\ env.ret.err = "none" /\ (env.ret.terminated \/ env.ret.truncated)

(* Lines 187-191: the model chooses the action and the instance is         *)
(* stepped.                                                                *)
StepEnv(t) ==
    LET id  == requests[t].episode_id
        env == envs[id]
    IN  /\ requests[t].pc = "step"
        /\ DrawsOf(issued) + 6 <= ApiMaxDraws
        /\ \E action \in {EW_GREEN, NS_GREEN} :
           \E arr_n, arr_s \in Bernoulli(env.last_scenario.ns_rate) :
           \E arr_e, arr_w \in Bernoulli(env.last_scenario.ew_rate) :
           \E fast_car_ns, fast_car_ew \in Bernoulli(env.last_scenario.fast_car_prob) :
              LET after == StepFn(env, action, arr_n, arr_s, arr_e, arr_w,
                                  fast_car_ns, fast_car_ew)
              IN  /\ envs' = Stored(id, after)
                  /\ requests' = [requests EXCEPT ![t] =
                                      [@ EXCEPT !.pc = "cleanup",
                                                !.done = after.ret.terminated
                                                         \/ after.ret.truncated,
                                                !.stale = Done(env)]]
        /\ UNCHANGED << single, stream, constructed, evaluation, fair_model, active_sessions, issued >>

(* The end of step_environment without the deletion of the session.        *)
StepCleanupKeepsSession(t) ==
    /\ requests[t].pc = "cleanup"
    /\ requests' = [requests EXCEPT ![t] = [@ EXCEPT !.pc = "idle", !.response = "200"]]
    /\ UNCHANGED << single, lockstep, constructed, evaluation, fair_model, active_sessions, issued >>

(* Lines 194-206: the session of a finished episode is deleted, which      *)
(* raises KeyError when it is gone already; the exception is answered with *)
(* 500, otherwise the step is answered with 200.                           *)
StepCleanup(t) ==
    LET id == requests[t].episode_id
    IN  /\ requests[t].pc = "cleanup"
        /\ IF requests[t].done /\ id \notin DOMAIN active_sessions
           THEN /\ requests' = [requests EXCEPT ![t] =
                                    [@ EXCEPT !.pc = "idle", !.response = "500 KeyError"]]
                /\ UNCHANGED active_sessions
           ELSE /\ requests' = [requests EXCEPT ![t] =
                                    [@ EXCEPT !.pc = "idle", !.response = "200"]]
                /\ active_sessions' =
                      IF requests[t].done
                      THEN [i \in DOMAIN active_sessions \ {id} |-> active_sessions[i]]
                      ELSE active_sessions
        /\ UNCHANGED << single, lockstep, constructed, evaluation, fair_model, issued >>

(* POST /reset: the registry is cleared.                                   *)
ResetEnvironments(t) ==
    /\ requests[t].pc = "idle"
    /\ active_sessions' = << >>
    /\ requests' = [requests EXCEPT ![t] =
                        [IdleRequest EXCEPT !.op = "reset", !.response = "200"]]
    /\ UNCHANGED << single, lockstep, constructed, evaluation, fair_model, issued >>

(* The server started with or without the model.                           *)
InitApi ==
    /\ InitEnv /\ rng.seed = 0
    /\ \E model \in {"PPO", "None"} : Startup(model)
    /\ InitEval

(* Requests one after the other: a request arrives when none is in         *)
(* progress.                                                               *)
NextApi ==
    \/ \E agent_type \in AgentTypes : InFlight = {} /\ InitRejected(1, agent_type)
    \/ \E seed \in Seeds \cup {0} : InFlight = {} /\ InitializeEpisode(1, seed)
    \/ \E id \in Instances : InFlight = {} /\ StepArrives(1, id)
    \/ InFlight = {} /\ ResetEnvironments(1)
    \/ StepLookup(1)
    \/ StepFetch(1)
    \/ StepEnv(1)
    \/ StepCleanup(1)

SpecApi == InitApi /\ [][NextApi]_vars

-----------------------------------------------------------------------------
(* The evaluation run (src/evaluate.py): evaluate builds an instance per   *)
(* episode and run_episode drives it from reset until done.                *)

(* The loop of run_episode goes on until a collision only.                 *)
EpisodeDoneTerminatedOnly(terminated, truncated) == terminated

(* done = terminated or truncated.                                         *)
EpisodeDone(terminated, truncated) == terminated \/ truncated

(* A step is saved as a hard case for its fairness gap only.               *)
HardCaseGapOnly(info) == RatLess(<< 3, 1 >>, info.fairness_gap)

(* The step with the result info is saved as a hard case.                  *)
HardCaseStep(info) == info.collision \/ RatLess(<< 3, 1 >>, info.fairness_gap)

(* The for loop of evaluate starts an episode: a new instance, reset       *)
(* without a seed, and the locals of run_episode.                          *)
EvalStartEpisode ==
    LET built == NewEnv(Construct(episodes_run + 1, 0))
    IN  /\ eval_pc = "for"
        /\ episodes_run < EvalEpisodes
        /\ \E sample \in SampleScenario(built.scenario_pool, built.scenario_pool_prob) :
              episode_env' = ResetFn(built, 0, sample)
        /\ done' = FALSE
        /\ episode_collisions' = 0
        /\ hard_cases' = << >>
        /\ eval_pc' = "while"
        /\ UNCHANGED << single, lockstep, constructed, server,
                        episodes_run, evaluate_hard_cases, flagged_steps >>

(* One pass of the while loop: the policy chooses an action of the action  *)
(* space, the instance is stepped and the results are collected.           *)
EvalStep ==
    /\ eval_pc = "while"
    /\ ~done
    /\ episode_env.step_count < MaxStepCalls
    /\ \E action \in {EW_GREEN, NS_GREEN} :
       \E arr_n, arr_s \in Bernoulli(episode_env.last_scenario.ns_rate) :
       \E arr_e, arr_w \in Bernoulli(episode_env.last_scenario.ew_rate) :
       \E fast_car_ns, fast_car_ew \in Bernoulli(episode_env.last_scenario.fast_car_prob) :
          LET after == StepFn(episode_env, action, arr_n, arr_s, arr_e, arr_w,
                              fast_car_ns, fast_car_ew)
              info  == after.ret
          IN  /\ episode_env' = after
              /\ done' = EpisodeDone(info.terminated, info.truncated)
              /\ episode_collisions' = episode_collisions + (IF info.collision THEN 1 ELSE 0)
              /\ hard_cases' = IF HardCaseStep(info)
                               THEN Append(hard_cases, info.scenario)
                               ELSE hard_cases
              /\ flagged_steps' =
                    IF info.collision \/ info.fairness_gap[1] > 3 * info.fairness_gap[2]
                    THEN flagged_steps + 1 ELSE flagged_steps
    /\ UNCHANGED << single, lockstep, constructed, server,
                    eval_pc, episodes_run, evaluate_hard_cases >>

(* run_episode returns and evaluate extends its list by the hard cases of  *)
(* the episode.                                                            *)
EvalEndEpisode ==
    /\ eval_pc = "while"
    /\ done
    /\ evaluate_hard_cases' = evaluate_hard_cases \o hard_cases
    /\ episodes_run' = episodes_run + 1
    /\ eval_pc' = "for"
    /\ UNCHANGED << single, lockstep, constructed, server,
                    episode_env, done, episode_collisions, hard_cases, flagged_steps >>

(* The for loop is over and the summary is made.                           *)
EvalSummary ==
    /\ eval_pc = "for"
    /\ episodes_run = EvalEpisodes
    /\ eval_pc' = "summary"
    /\ UNCHANGED << single, lockstep, constructed, server,
                    episodes_run, episode_env, done, episode_collisions,
                    hard_cases, evaluate_hard_cases, flagged_steps >>

NextEval ==
    \/ EvalStartEpisode
    \/ EvalStep
    \/ EvalEndEpisode
    \/ EvalSummary

InitEvaluate == Init /\ rng.seed = 0

SpecEval == InitEvaluate /\ [][NextEval]_vars

(* Requests handled by the threads of the pool at the same time: the       *)
(* handlers are plain functions, which the framework runs on a thread      *)
(* pool.  The steps of two handlers interleave between the statements of   *)
(* step_environment.  One session is created.                              *)
NextApiThreads ==
    \/ \E seed \in Seeds \cup {0} : issued = {} /\ InitializeEpisode(1, seed)
    \/ \E t \in Threads, id \in Instances : StepArrives(t, id)
    \/ \E t \in Threads : StepLookup(t)
    \/ \E t \in Threads : StepFetch(t)
    \/ \E t \in Threads : StepEnv(t)
    \/ \E t \in Threads : StepCleanup(t)

SpecApiThreads == InitApi /\ [][NextApiThreads]_vars

-----------------------------------------------------------------------------
(* Properties.                                                             *)

(* The transition just taken is a step call that returned normally.        *)
Stepped == ret'.op = "step" /\ ret'.err = "none"

(* C1: after reset and after any sequence of steps, each of the four queue *)
(* lengths is an integer in [0, max_queue].                                *)
C1_QueuesBounded ==
    /\ queue_n \in 0..max_queue
    /\ queue_s \in 0..max_queue
    /\ queue_e \in 0..max_queue
    /\ queue_w \in 0..max_queue

(* Three certain arrivals at a queue that is never served fill it.         *)
C1_Witness ==
    /\ ret.op = "step" /\ ret.err = "none" /\ last_scenario.ew_rate = 10
    /\ phase = NS_GREEN /\ step_count = 3 /\ time_since_switch = 2
    /\ queue_e = max_queue

(* C2: a step with an action in {0,1} leaves phase equal to the action;    *)
(* time_since_switch is 0 if the action differed from the previous phase   *)
(* and its previous value plus 1 otherwise; so time_since_switch always    *)
(* equals the number of steps since the last phase change or reset.        *)
C2_PhaseTransition ==
    /\ [][ (Stepped /\ ret'.action \in {EW_GREEN, NS_GREEN}) =>
             /\ phase' = ret'.action
             /\ time_since_switch' =
                   IF ret'.action # phase THEN 0 ELSE time_since_switch + 1 ]_vars
    /\ [](time_since_switch = steps_since_change)

(* A switch back after a switch: the timer is 0 again on the second step.  *)
C2_Witness ==
    /\ ret.op = "step" /\ ret.err = "none" /\ ret.switched
    /\ step_count = 2 /\ phase = EW_GREEN /\ time_since_switch = 0

(* C3: a step that changes the phase while the previous time_since_switch  *)
(* is below min_green_steps reports unsafe_switch and still switches; a    *)
(* step that changes the phase at time_since_switch >= min_green_steps, or *)
(* that does not change the phase, does not report unsafe_switch.          *)
C3_MinGreenByPenalty ==
    [][ Stepped =>
          /\ ret'.unsafe_switch =
                IF ret'.action # phase /\ time_since_switch < min_green_steps
                THEN 1 ELSE 0
          /\ (ret'.action # phase => phase' = ret'.action /\ phase' # phase) ]_vars

(* A switch after the green was held for min_green_steps is not flagged.   *)
C3_Witness ==
    /\ ret.op = "step" /\ ret.err = "none"
    /\ ret.switched /\ ret.unsafe_switch = 0 /\ phase = NS_GREEN

(* C4: on every step safety_violation = max(unsafe_switch, risk_ns,        *)
(* risk_ew), collision = (safety_violation # 0), terminated = collision,   *)
(* and the collision counter grows by 1 on a collision step and is         *)
(* unchanged on every other step.                                          *)
C4_CollisionTerminates ==
    [][ Stepped =>
          /\ ret'.safety_violation =
                Max3(ret'.unsafe_switch, ret'.risk_ns, ret'.risk_ew)
          /\ ret'.collision = (ret'.safety_violation # 0)
          /\ ret'.terminated = ret'.collision
          /\ collisions' = IF ret'.collision THEN collisions + 1 ELSE collisions ]_vars

(* A first collision caused by two flags at once.                          *)
C4_Witness ==
    /\ ret.op = "step" /\ ret.terminated /\ collisions = 1
    /\ ret.unsafe_switch = 1 /\ ret.risk_ew = 1

(* C5: step_count grows by exactly 1 on every step; truncated is false on  *)
(* a step that ends with step_count < max_steps and true on the step that  *)
(* brings step_count to max_steps.                                         *)
C5_Truncation ==
    [][ Stepped =>
          /\ step_count' = step_count + 1
          /\ (step_count' < max_steps => ~ret'.truncated)
          /\ (step_count' = max_steps => ret'.truncated) ]_vars

(* The step that reaches max_steps without any collision.                  *)
C5_Witness ==
    /\ ret.op = "step" /\ ret.truncated /\ ~ret.terminated
    /\ step_count = max_steps /\ collisions = 0

(* C6: once a step has returned terminated or truncated, a further step    *)
(* without a reset fails with InvalidState and changes nothing of the      *)
(* episode.                                                                *)
C6_NoStepAfterEnd ==
    [][ (ret.op = "step" /\ ret.err = "none" /\ (ret.terminated \/ ret.truncated)
         /\ ret'.op = "step")
        => (ret'.err = "InvalidState" /\ episode' = episode) ]_vars

(* C7: a step on an instance that was never reset fails with an error and  *)
(* leaves the episode state and the generator unchanged; a reset that      *)
(* follows succeeds and starts a normal episode.                           *)
C7_StepBeforeReset ==
    /\ [][ (last_scenario = None /\ ret'.op = "step") =>
             (ret'.err # "none" /\ episode' = episode) ]_vars
    /\ [][ (ret.op = "step" /\ ret.err # "none" /\ ret'.op = "reset") =>
             /\ last_scenario' # None
             /\ step_count' = 0 /\ phase' = EW_GREEN /\ time_since_switch' = 0
             /\ collisions' = 0
             /\ queue_n' = 0 /\ queue_s' = 0 /\ queue_e' = 0 /\ queue_w' = 0 ]_vars
    /\ [](last_scenario = None => ENABLED (\E seed \in Seeds \cup {0} : Reset(seed)))

(* The failed step has been reported and the instance is still fresh.      *)
C7_Witness ==
    /\ ret.op = "step" /\ ret.err = "AssertionError"
    /\ last_scenario = None /\ step_count = 0

(* C8: a step with an action outside {0,1} is rejected with InvalidAction  *)
(* and mutates nothing, so phase is always EW_GREEN or NS_GREEN.           *)
C8_InvalidActionRejected ==
    /\ [][ (last_scenario # None /\ ret'.op = "step"
            /\ ret'.action \notin {EW_GREEN, NS_GREEN}) =>
             (ret'.err = "InvalidAction" /\ episode' = episode) ]_vars
    /\ [](phase \in {EW_GREEN, NS_GREEN})

(* C9 as claimed: a risk flag is set only for the axis that holds the      *)
(* green (NS risk under NS_GREEN, EW risk under EW_GREEN).                 *)
C9_RiskOnOwnGreen ==
    (ret.op = "step" /\ ret.err = "none") =>
        /\ (ret.risk_ns = 1 =>
              phase = NS_GREEN /\ ret.fast_car_ns /\ TtcLow(last_scenario))
        /\ (ret.risk_ew = 1 =>
              phase = EW_GREEN /\ ret.fast_car_ew /\ TtcLow(last_scenario))

(* C9 amended: the NS risk flag is set only if the EW axis holds the green *)
(* after the transition, a fast vehicle was drawn on NS and ttc is below   *)
(* ttc_threshold; the EW risk flag only if the NS axis holds the green, a  *)
(* fast vehicle was drawn on EW and ttc is below ttc_threshold.  A risk    *)
(* flag is never set for the axis that holds the green.                    *)
C9_RiskOnOpposingGreen ==
    (ret.op = "step" /\ ret.err = "none") =>
        /\ (ret.risk_ns = 1 =>
              phase = EW_GREEN /\ ret.fast_car_ns /\ TtcLow(last_scenario))
        /\ (ret.risk_ew = 1 =>
              phase = NS_GREEN /\ ret.fast_car_ew /\ TtcLow(last_scenario))
        /\ (phase = NS_GREEN => ret.risk_ns = 0)
        /\ (phase = EW_GREEN => ret.risk_ew = 0)

(* The NS risk flag raised while EW holds the green.                       *)
C9_Witness ==
    /\ ret.op = "step" /\ ret.risk_ns = 1 /\ ret.unsafe_switch = 0
    /\ phase = EW_GREEN

(* The integer f is a nearest integer of num/10.                           *)
Nearest(f, num) == 10 * f - 5 <= num /\ num <= 10 * f + 5

(* The queue lengths an approach can have after the arrivals of one step.  *)
AfterArrival(queue) == {queue, Min(max_queue, queue + 1)}

(* C10: with flow = max(1, round(max_flow * visibility)), the two queues   *)
(* of the green axis are each reduced by min(queue, flow), the other two   *)
(* are not reduced, throughput is the total reduction and at most          *)
(* 2 * flow; over a step a non-green queue never decreases and grows by    *)
(* at most 1.                                                              *)
C10_Serve ==
    [][ Stepped =>
        \E f \in 0..max_flow :
          /\ Nearest(f, max_flow * last_scenario.visibility)
          /\ LET flow == Max(1, f)
             IN  \E pn \in AfterArrival(queue_n), ps \in AfterArrival(queue_s),
                    pe \in AfterArrival(queue_e), pw \in AfterArrival(queue_w) :
                   /\ ret'.throughput <= 2 * flow
                   /\ phase' = EW_GREEN =>
                        /\ queue_e' = pe - Min(pe, flow)
                        /\ queue_w' = pw - Min(pw, flow)
                        /\ queue_n' = pn /\ queue_s' = ps
                        /\ ret'.throughput = Min(pe, flow) + Min(pw, flow)
                        /\ queue_n' >= queue_n /\ queue_n' <= queue_n + 1
                        /\ queue_s' >= queue_s /\ queue_s' <= queue_s + 1
                   /\ phase' = NS_GREEN =>
                        /\ queue_n' = pn - Min(pn, flow)
                        /\ queue_s' = ps - Min(ps, flow)
                        /\ queue_e' = pe /\ queue_w' = pw
                        /\ ret'.throughput = Min(pn, flow) + Min(ps, flow)
                        /\ queue_e' >= queue_e /\ queue_e' <= queue_e + 1
                        /\ queue_w' >= queue_w /\ queue_w' <= queue_w + 1 ]_vars

(* A north queue longer than the flow of 1: vehicles remain after service. *)
C10_Witness ==
    /\ ret.op = "step" /\ ret.err = "none" /\ phase = NS_GREEN
    /\ last_scenario.visibility = 2
    /\ queue_n >= 1 /\ ret.throughput >= 1

(* The last call was a step that returned normally.                        *)
StepReturned == ret.op = "step" /\ ret.err = "none"

(* C11: within a step the phase transition comes first, then the arrivals  *)
(* (at most 1 per queue, clamped to max_queue), then the service of the    *)
(* axis the step requested.  So an arrival at an empty green queue leaves  *)
(* in the same step, and an arrival at a full queue is dropped even when   *)
(* that queue is served in the same step.                                  *)
C11_StepOrder ==
    [][ (Stepped /\ ret'.action \in {EW_GREEN, NS_GREEN}) =>
        \E an \in Bernoulli(last_scenario.ns_rate),
           as \in Bernoulli(last_scenario.ns_rate),
           ae \in Bernoulli(last_scenario.ew_rate),
           aw \in Bernoulli(last_scenario.ew_rate) :
          LET flow == Flow(last_scenario)
              ns   == ret'.action = NS_GREEN
              pn   == IF an THEN Min(max_queue, queue_n + 1) ELSE queue_n
              ps   == IF as THEN Min(max_queue, queue_s + 1) ELSE queue_s
              pe   == IF ae THEN Min(max_queue, queue_e + 1) ELSE queue_e
              pw   == IF aw THEN Min(max_queue, queue_w + 1) ELSE queue_w
          IN  /\ queue_n' = IF ns THEN pn - Min(pn, flow) ELSE pn
              /\ queue_s' = IF ns THEN ps - Min(ps, flow) ELSE ps
              /\ queue_e' = IF ns THEN pe ELSE pe - Min(pe, flow)
              /\ queue_w' = IF ns THEN pw ELSE pw - Min(pw, flow)
              /\ ret'.throughput = IF ns THEN Min(pn, flow) + Min(ps, flow)
                                         ELSE Min(pe, flow) + Min(pw, flow) ]_vars

(* The east queue, full after two unserved steps with certain arrivals, is *)
(* served at flow 1 on the step that switches to EW: the third arrival is  *)
(* dropped and one vehicle leaves.                                         *)
C11_Witness ==
    /\ StepReturned /\ ret.switched /\ phase = EW_GREEN /\ step_count = 3
    /\ last_scenario.ew_rate = 10 /\ last_scenario.visibility = 2
    /\ queue_e = max_queue - 1 /\ ret.throughput = 2

(* C12: reset, from any reachable state, gives the initial episode state:  *)
(* queues, waits, timer, step_count and collision counter 0, phase         *)
(* EW_GREEN, and a scenario sampled anew.                                  *)
C12_ResetInitialState ==
    [][ ret'.op = "reset" =>
          /\ queue_n' = 0 /\ queue_s' = 0 /\ queue_e' = 0 /\ queue_w' = 0
          /\ cum_wait_n' = 0 /\ cum_wait_s' = 0 /\ cum_wait_e' = 0 /\ cum_wait_w' = 0
          /\ phase' = EW_GREEN /\ time_since_switch' = 0
          /\ step_count' = 0 /\ collisions' = 0
          /\ last_scenario' # None
          /\ \E sample \in SampleScenario(scenario_pool, scenario_pool_prob) :
                last_scenario' = sample.scenario ]_vars

(* A reset without a seed that followed a step of an earlier episode.      *)
C12_Witness ==
    /\ ret.op = "reset" /\ ret.seed = 0 /\ rng.pos >= 14
    /\ step_count = 0 /\ collisions = 0

(* C15: each step adds to each wait accumulator the length of that queue   *)
(* after the spawn and serve of the step, so the accumulators never        *)
(* decrease within an episode and start from 0 at reset; avg_wait of an    *)
(* axis is the sum of its two accumulators divided by step_count.          *)
C15_Waits ==
    /\ [][ Stepped =>
             /\ cum_wait_n' = cum_wait_n + queue_n' /\ cum_wait_n' >= cum_wait_n
             /\ cum_wait_s' = cum_wait_s + queue_s' /\ cum_wait_s' >= cum_wait_s
             /\ cum_wait_e' = cum_wait_e + queue_e' /\ cum_wait_e' >= cum_wait_e
             /\ cum_wait_w' = cum_wait_w + queue_w' /\ cum_wait_w' >= cum_wait_w
             /\ RatEq(ret'.avg_wait_ns, << cum_wait_n' + cum_wait_s', step_count' >>)
             /\ RatEq(ret'.avg_wait_ew, << cum_wait_e' + cum_wait_w', step_count' >>) ]_vars
    /\ [][ ret'.op = "reset" =>
             cum_wait_n' = 0 /\ cum_wait_s' = 0 /\ cum_wait_e' = 0 /\ cum_wait_w' = 0 ]_vars

(* Three steps of a growing north queue: the accumulator holds more than   *)
(* the number of steps.                                                    *)
C15_Witness ==
    /\ StepReturned /\ step_count = 3
    /\ queue_n >= 2 /\ cum_wait_n >= 4

(* C16: fairness_gap is |cum_wait_n + cum_wait_s - cum_wait_e - cum_wait_w| *)
(* / step_count; it is never negative, it is the same with the two axes    *)
(* exchanged, and it is 0 when the two axes' cumulative waits are equal.   *)
C16_FairnessGap ==
    StepReturned =>
        LET ns == cum_wait_n + cum_wait_s
            ew == cum_wait_e + cum_wait_w
        IN  /\ RatEq(ret.fairness_gap,
                     << IF ns >= ew THEN ns - ew ELSE ew - ns, step_count >>)
            /\ ret.fairness_gap[1] >= 0 /\ ret.fairness_gap[2] > 0
            /\ RatEq(FairnessGap(ret.avg_wait_ew, ret.avg_wait_ns), ret.fairness_gap)
            /\ (ns = ew => ret.fairness_gap[1] = 0)

(* The NS axis has waited less than the EW axis, and the gap is positive.  *)
C16_Witness ==
    /\ StepReturned
    /\ cum_wait_n + cum_wait_s < cum_wait_e + cum_wait_w
    /\ ret.fairness_gap[1] > 0

(* The reward terms that do not depend on the waits, in hundredths.        *)
PlainReward ==
    throughput_reward * ret.throughput
    - queue_penalty * (queue_n + queue_s + queue_e + queue_w)
    - switch_penalty * (IF ret.switched THEN 1 ELSE 0)
    - safety_weight * ret.safety_violation

(* C17: the reward of a step is throughput_reward * throughput             *)
(* - queue_penalty * (sum of the four queues after the step)               *)
(* - switch_penalty * [phase changed] - fairness_weight * fairness_gap     *)
(* - safety_weight * safety_violation, with safety_violation 0 or 1; with  *)
(* fairness_weight 0 it does not depend on the wait accumulators.          *)
C17_Reward ==
    StepReturned =>
        /\ ret.safety_violation \in {0, 1}
        /\ RatEq(ret.reward,
                 RatSub(<< PlainReward, 1 >>,
                        << fairness_weight * ret.fairness_gap[1], ret.fairness_gap[2] >>))
        /\ RatEq(Reward(0, ret.throughput, queue_n + queue_s + queue_e + queue_w,
                        ret.switched, ret.fairness_gap, ret.safety_violation),
                 << PlainReward, 1 >>)

(* A switching step with two safety flags and a positive fairness gap.     *)
C17_Witness ==
    /\ StepReturned /\ ret.switched
    /\ ret.unsafe_switch = 1 /\ ret.risk_ew = 1
    /\ ret.fairness_gap[1] > 0 /\ ret.throughput > 0

(* C20: every observation returned by reset or step has 9 components; the  *)
(* queue components are queue / max_queue and lie in [0,1], the phase      *)
(* component is 0 or 1, and the timer component is                         *)
(* min(time_since_switch / min_green_steps, 1).                            *)
C20_Observation ==
    (ret.op \in {"reset", "step"} /\ ret.err = "none") =>
        /\ Len(ret.obs) = 9
        /\ RatEq(ret.obs[1], << queue_n, max_queue >>)
        /\ RatEq(ret.obs[2], << queue_s, max_queue >>)
        /\ RatEq(ret.obs[3], << queue_e, max_queue >>)
        /\ RatEq(ret.obs[4], << queue_w, max_queue >>)
        /\ \A i \in 1..4 : ~RatLess(ret.obs[i], << 0, 1 >>) /\ ~RatLess(<< 1, 1 >>, ret.obs[i])
        /\ ret.obs[5] \in {0, 1}
        /\ RatEq(ret.obs[6],
                 IF time_since_switch >= min_green_steps
                 THEN << 1, 1 >> ELSE << time_since_switch, min_green_steps >>)

(* The scenario lies within the configured ranges.                         *)
InRanges(scenario) ==
    /\ ns_rate_range[1] <= scenario.ns_rate /\ scenario.ns_rate <= ns_rate_range[2]
    /\ ew_rate_range[1] <= scenario.ew_rate /\ scenario.ew_rate <= ew_rate_range[2]
    /\ visibility_range[1] <= scenario.visibility
    /\ scenario.visibility <= visibility_range[2]
    /\ fast_car_prob_range[1] <= scenario.fast_car_prob
    /\ scenario.fast_car_prob <= fast_car_prob_range[2]

(* C18: the scenario of an episode is set by reset and changed by nothing  *)
(* else: every step, also one past termination, reports the scenario the   *)
(* last reset returned, and neither set_scenario_pool nor a change of the  *)
(* pool touches the scenario of the episode in progress.                   *)
C18_ScenarioFixed ==
    /\ [][ ret'.op # "reset" => last_scenario' = last_scenario ]_vars
    /\ [][ ret'.op = "reset" => ret'.scenario = last_scenario' ]_vars
    /\ [][ Stepped => ret'.scenario = last_scenario ]_vars

(* A step past termination, with a pool that does not hold the scenario    *)
(* of the episode.                                                         *)
C18_Witness ==
    /\ StepReturned /\ step_count = 2 /\ collisions = 1 /\ ~ret.collision
    /\ scenario_pool = << OtherHardCase >>
    /\ InRanges(last_scenario) /\ ret.scenario = last_scenario

(* C19: a scenario produced at reset is an entry of the pool, returned     *)
(* verbatim, or has its four parameters inside their ranges; a pool entry  *)
(* is returned only if the pool is non-empty and scenario_pool_prob allows *)
(* the pool draw to succeed, so an empty pool or scenario_pool_prob = 0    *)
(* always gives a scenario from the ranges.                                *)
C19_ScenarioSource ==
    [][ ret'.op = "reset" =>
          \/ InRanges(last_scenario')
          \/ /\ Len(scenario_pool) > 0
             /\ scenario_pool_prob > 0
             /\ \E i \in 1..Len(scenario_pool) : last_scenario' = scenario_pool[i] ]_vars

(* A reset that returned the pool entry.                                   *)
C19_Witness ==
    /\ ret.op = "reset" /\ last_scenario = HardCase
    /\ scenario_pool = << HardCase >> /\ scenario_pool_prob = 5

(* C13: instances built with the same configuration and the same seed and *)
(* driven by the same reset and step calls with the same actions return    *)
(* the same observation, reward, flags and info at every call and are in   *)
(* the same state after every call.                                        *)
C13_Determinism ==
    \A i, j \in Instances :
        /\ envs[i].ret = envs[j].ret
        /\ envs[i] = envs[j]

(* Both instances returned from a step in which a car arrived from the     *)
(* north and none from the south, at the same arrival rate.                *)
C13_Witness ==
    \A i \in Instances :
        /\ envs[i].ret.op = "step" /\ envs[i].ret.err = "none"
        /\ envs[i].step_count = 1 /\ envs[i].phase = EW_GREEN
        /\ envs[i].queue_n = 1 /\ envs[i].queue_s = 0

(* The scenario _sample_scenario draws from the ranges when the generator  *)
(* seeded with seed is at position pos of its stream.                      *)
ScenarioAt(seed, pos) ==
    TrafficScenario(UniformAt(ns_rate_range, stream'[<< seed, pos >>]),
                    UniformAt(ew_rate_range, stream'[<< seed, pos + 1 >>]),
                    UniformAt(visibility_range, stream'[<< seed, pos + 2 >>]),
                    UniformAt(fast_car_prob_range, stream'[<< seed, pos + 3 >>]))

(* C14: reset with a seed replaces the generator by one freshly seeded     *)
(* with that seed, so that the scenario is the one at the start of that    *)
(* seed's stream whatever was drawn before and later draws follow from     *)
(* there; reset without a seed keeps the generator and moves it on by the  *)
(* draws of the scenario only.  No pool is configured, so the scenario     *)
(* takes four draws.  The values of a stream never change.                 *)
C14_Seeding ==
    /\ [][ \A i \in Instances :
             (envs'[i].ret.op = "reset" /\ envs'[i].ret.seed # 0) =>
                 /\ envs'[i].rng = [seed |-> envs'[i].ret.seed, pos |-> 4]
                 /\ envs'[i].last_scenario = ScenarioAt(envs'[i].ret.seed, 0) ]_vars
    /\ [][ \A i \in Instances :
             (envs'[i].ret.op = "reset" /\ envs'[i].ret.seed = 0) =>
                 /\ envs'[i].rng = [seed |-> envs[i].rng.seed, pos |-> envs[i].rng.pos + 4]
                 /\ envs'[i].last_scenario = ScenarioAt(envs[i].rng.seed, envs[i].rng.pos) ]_vars
    /\ [][ \A k \in DOMAIN stream : k \in DOMAIN stream' /\ stream'[k] = stream[k] ]_vars

(* A reset with a seed after more than the scenario's draws were taken.    *)
C14_Witness ==
    \A i \in Instances :
        /\ envs[i].ret.op = "reset" /\ envs[i].ret.seed \in Seeds
        /\ envs[i].rng.pos = 4
        /\ Cardinality(DOMAIN stream) >= 10

(* The configuration is one the specification allows: every range has its *)
(* low end at or below its high end, rates and probabilities lie in [0,1], *)
(* and min_green_steps is not negative.                                    *)
ValidConfiguration(kwargs) ==
    /\ \A r \in {kwargs.ns_rate_range, kwargs.fast_car_prob_range, kwargs.visibility_range} :
           r[1] <= r[2]
    /\ \A r \in {kwargs.ns_rate_range, kwargs.fast_car_prob_range} :
           0 <= r[1] /\ r[2] <= 10
    /\ kwargs.min_green_steps >= 0

(* C21: a construction with an invalid configuration fails, so that every  *)
(* instance that exists has a valid configuration.                         *)
C21_InvalidConfigurationRejected ==
    constructed # NoKwargs => ValidConfiguration(constructed)

(* C22: two /step requests for one session handled at the same time leave  *)
(* the episode and the responses as two requests handled one after the     *)
(* other would: no request steps an episode that has already returned      *)
(* terminated or truncated, and none fails on the deletion of the session. *)
C22_Serialized ==
    \A t \in Threads :
        /\ ~requests[t].stale
        /\ requests[t].response # "500 KeyError"

(* C23: a reset or step on one instance leaves every field of every other  *)
(* instance unchanged: only the instance the request addresses changes.    *)
C23_NoSharedState ==
    [][ \A i \in Instances :
          envs'[i] # envs[i] =>
              \/ requests[1].pc = "step" /\ requests[1].episode_id = i
              \/ /\ requests'[1].op = "init" /\ requests'[1].episode_id = i
                 /\ i \notin issued ]_vars

(* Two sessions exist; the first was stepped after the second was created  *)
(* and the second is as its reset left it.                                 *)
C23_Witness ==
    /\ DOMAIN active_sessions = {1, 2}
    /\ requests[1].op = "step" /\ requests[1].episode_id = 1
    /\ requests[1].response = "200"
    /\ envs[1].step_count = 1 /\ envs[1].rng.pos = 10
    /\ envs[2].step_count = 0 /\ envs[2].rng.pos = 4
    /\ envs[2].ret.op = "reset"

(* C25: between requests every session of the registry holds an episode    *)
(* that was reset and has not returned terminated or truncated; the step   *)
(* that returns done removes its session; a /step with an identifier that  *)
(* is not in the registry is answered with 404 and changes neither the     *)
(* registry nor any instance.                                              *)
C25_Registry ==
    /\ [](InFlight = {} =>
             \A id \in DOMAIN active_sessions :
                 envs[id].last_scenario # None /\ ~Done(envs[id]))
    /\ [][ (requests[1].pc = "cleanup" /\ requests'[1].pc = "idle") =>
             /\ requests'[1].response = "200"
             /\ requests[1].episode_id \in DOMAIN active_sessions
             /\ requests[1].done = Done(envs[requests[1].episode_id])
             /\ requests[1].done <=> requests[1].episode_id \notin DOMAIN active_sessions' ]_vars
    /\ [][ (requests[1].pc = "lookup"
              /\ requests[1].episode_id \notin DOMAIN active_sessions) =>
             /\ requests'[1].pc = "idle" /\ requests'[1].response = "404"
             /\ active_sessions' = active_sessions /\ envs' = envs ]_vars
    /\ [][ requests'[1].op = "reset" => active_sessions' = << >> /\ envs' = envs ]_vars

(* A /step for a session that was removed when its episode ended, while    *)
(* another session is still registered, answered with 404.                 *)
C25_Witness ==
    /\ requests[1].op = "step" /\ requests[1].episode_id = 1
    /\ requests[1].pc = "idle" /\ requests[1].response = "404"
    /\ Done(envs[1])
    /\ DOMAIN active_sessions = {2}

C26_EpisodeEnds ==
    eval_pc = "while" =>
        /\ episode_env.step_count <= max_steps
        /\ episode_env.step_count = max_steps => done
        /\ episode_collisions <= 1
        /\ episode_env.collisions = episode_collisions
        /\ episode_collisions = 1 <=> (done /\ episode_env.ret.terminated)

(* An episode that ended truncated at call max_steps without a collision.  *)
C26_Witness ==
    /\ eval_pc = "while" /\ done
    /\ episode_env.step_count = max_steps
    /\ episode_env.ret.truncated /\ ~episode_env.ret.terminated
    /\ episode_collisions = 0

====
